---- MODULE Spec2Model ----
(***************************************************************************)
(* minitrue: a configuration-driven line rewriter.                         *)
(*                                                                         *)
(* The model follows cli.main: load_config, compile_rules, the two opens,  *)
(* Processor.process_stream line by line, and the finally block.           *)
(*                                                                         *)
(* Text is a sequence of one-character strings, so that slicing, splicing, *)
(* searching and template scanning are computed, not assumed.  An optional *)
(* value (Python's None) is a sequence of length 0 or 1; a span is a       *)
(* sequence of length 0 (None) or 2.  A dict[str, str] is a function whose *)
(* domain is a set of texts.                                               *)
(***************************************************************************)
EXTENDS Integers, Sequences, FiniteSets, TLC

(***************************************************************************)
(* Bounds of the model.                                                    *)
(***************************************************************************)
MaxRules == 2

MaxLines == 2

(***************************************************************************)
(* Python values and str operations.                                       *)
(***************************************************************************)
None == <<>>

Some(x) == <<x>>

IsNone(o) == Len(o) = 0

NL == "\n"

Digits == <<"0", "1", "2", "3", "4", "5", "6", "7", "8", "9">>

LowerCase ==
    {"a", "b", "c", "d", "e", "f", "g", "h", "i", "j", "k", "l", "m", "n", "o", "p",
     "q", "r", "s", "t", "u", "v", "w", "x", "y", "z"}

UpperCase == {"D", "E", "L", "O", "R"}

\* The characters \w accepts, among those the model uses.
WordChars == LowerCase \cup UpperCase \cup {"_"} \cup {Digits[j] : j \in 1..10}

\* str.lower on the characters the model uses.
Lower(c) ==
    CASE c = "D" -> "d"
      [] c = "E" -> "e"
      [] c = "L" -> "l"
      [] c = "O" -> "o"
      [] c = "R" -> "r"
      [] OTHER -> c

\* str(int) for a non-negative int.
RECURSIVE ToDecimal(_)
ToDecimal(n) ==
    IF n < 10 THEN <<Digits[n + 1]>>
    ELSE ToDecimal(n \div 10) \o <<Digits[(n % 10) + 1]>>

\* A slice bound as Python normalises it: negative counts from the end,
\* then clamped to 0..len.
Clamp(k, n) == IF k < 0 THEN 0 ELSE IF k > n THEN n ELSE k

SliceIndex(s, j) == Clamp(IF j < 0 THEN j + Len(s) ELSE j, Len(s))

Cut(s, lo, hi) == IF hi <= lo THEN <<>> ELSE SubSeq(s, lo + 1, hi)

\* s[a:b]
PySlice(s, a, b) == Cut(s, SliceIndex(s, a), SliceIndex(s, b))

\* s[:b]
PySliceTo(s, b) == Cut(s, 0, SliceIndex(s, b))

\* s[a:]
PySliceFrom(s, a) == Cut(s, SliceIndex(s, a), Len(s))

\* s.endswith("\n")
EndsWithNL(s) == Len(s) > 0 /\ s[Len(s)] = NL

\* s.rstrip("\n")
RECURSIVE RStripNL(_)
RStripNL(s) ==
    IF EndsWithNL(s) THEN RStripNL(SubSeq(s, 1, Len(s) - 1)) ELSE s

\* s.startswith(t, pos) with pos counted from 0.
StartsAt(s, t, pos) ==
    /\ pos + Len(t) <= Len(s)
    /\ \A j \in 1..Len(t) : s[pos + j] = t[j]

\* s.replace(what, with_what) for a non-empty what: leftmost occurrences,
\* not overlapping, the replacement itself never rescanned.
RECURSIVE StrReplace(_, _, _)
StrReplace(s, what, with_what) ==
    IF Len(s) < Len(what) THEN s
    ELSE IF StartsAt(s, what, 0)
         THEN with_what \o StrReplace(SubSeq(s, Len(what) + 1, Len(s)), what, with_what)
         ELSE <<s[1]>> \o StrReplace(Tail(s), what, with_what)

\* str.strip() of spaces, as the template lexer trims an expression.
RECURSIVE StripSpaces(_)
StripSpaces(s) ==
    IF Len(s) > 0 /\ s[1] = " " THEN StripSpaces(Tail(s))
    ELSE IF Len(s) > 0 /\ s[Len(s)] = " " THEN StripSpaces(SubSeq(s, 1, Len(s) - 1))
    ELSE s

\* dict.update: the entries of b laid over those of a.
DictUpdate(a, b) ==
    [k \in (DOMAIN a) \cup (DOMAIN b) |-> IF k \in DOMAIN b THEN b[k] ELSE a[k]]

EmptyDict == [k \in {} |-> <<>>]

(***************************************************************************)
(* Regular expressions (the re module, on the expressions the model uses). *)
(*                                                                         *)
(* An expression is `^`? item* `$`?, each item a literal text, \w+ or .*,  *)
(* optionally inside a named group (?P<name>...), optionally followed by   *)
(* `?`.  A source text re.compile rejects has ok = FALSE.  Matching is the *)
(* backtracking search of re: leftmost start, each item greedy, an         *)
(* optional item tried present before absent.                              *)
(***************************************************************************)
Lit(t) == [name |-> <<>>, atom |-> "lit", text |-> t, opt |-> FALSE]

WordPlus == [name |-> <<>>, atom |-> "word+", text |-> <<>>, opt |-> FALSE]

AnyStar == [name |-> <<>>, atom |-> "any*", text |-> <<>>, opt |-> FALSE]

Group(n, item) == [item EXCEPT !.name = n]

Optional(item) == [item EXCEPT !.opt = TRUE]

Regex(b, its, e) == [ok |-> TRUE, bol |-> b, items |-> its, eol |-> e]

BadRegex == [ok |-> FALSE, bol |-> FALSE, items |-> <<>>, eol |-> FALSE]

\* config._parse_flags: MULTILINE is always set.
FlagOf(ch, rest) ==
    CASE ch = "i" -> rest \cup {"IGNORECASE"}
      [] ch = "m" -> rest \cup {"MULTILINE"}
      [] ch = "s" -> rest \cup {"DOTALL"}
      [] OTHER -> rest

RECURSIVE _parse_flags(_)
_parse_flags(flag_letters) ==
    IF IsNone(flag_letters) \/ Len(flag_letters[1]) = 0 THEN {"MULTILINE"}
    ELSE FlagOf(Lower(flag_letters[1][1]), _parse_flags(Some(Tail(flag_letters[1]))))

\* re.compile(source, flags): the compiled pattern, or ok = FALSE for re.error.
re_compile(source, flags) ==
    [ok |-> source.ok, bol |-> source.bol, items |-> source.items,
     eol |-> source.eol, flags |-> flags]

\* Pattern.groupindex: the names of the named groups.
GroupIndex(p) ==
    {p.items[j].name : j \in {k \in 1..Len(p.items) : Len(p.items[k].name) > 0}}

\* One character against one character of a literal.
CharEq(p, c, d) ==
    IF "IGNORECASE" \in p.flags THEN Lower(c) = Lower(d) ELSE c = d

LitAt(p, line, t, pos) ==
    /\ pos + Len(t) <= Len(line)
    /\ \A j \in 1..Len(t) : CharEq(p, line[pos + j], t[j])

\* What one repetition of the atom accepts.
AtomChar(p, atom, c) ==
    IF atom = "word+" THEN c \in WordChars
    ELSE "DOTALL" \in p.flags \/ c # NL

\* The longest run of characters the atom accepts from pos.
RECURSIVE Run(_, _, _, _)
Run(p, atom, line, pos) ==
    IF pos < Len(line) /\ AtomChar(p, atom, line[pos + 1])
    THEN 1 + Run(p, atom, line, pos + 1)
    ELSE 0

\* ^ and $ under MULTILINE (always set by _parse_flags).
AtBol(line, pos) == pos = 0 \/ line[pos] = NL

AtEol(line, pos) == pos = Len(line) \/ line[pos + 1] = NL

Unset == <<-1, -1>>

\* The most and the fewest characters an item may take at pos (-1: the
\* literal is not there).
MaxTake(p, it, line, pos) ==
    IF it.atom = "lit"
    THEN IF LitAt(p, line, it.text, pos) THEN Len(it.text) ELSE -1
    ELSE Run(p, it.atom, line, pos)

MinTake(it) ==
    CASE it.atom = "lit" -> Len(it.text)
      [] it.atom = "word+" -> 1
      [] OTHER -> 0

Bind(spans, name, pos, n) ==
    IF Len(name) > 0 THEN [spans EXCEPT ![name] = <<pos, pos + n>>] ELSE spans

RECURSIVE MatchItems(_, _, _, _, _), TryLens(_, _, _, _, _, _, _)
\* r if the rest matched after the k-th item took n characters, else the
\* k-th item retried with n - 1.
OrShorter(p, line, k, pos, spans, n, lo, r) ==
    IF ~IsNone(r) THEN r ELSE TryLens(p, line, k, pos, spans, n - 1, lo)

\* The k-th item taking n characters, then n - 1, ... down to lo; then, for
\* an optional item, taking none and leaving its group unset.
TryLens(p, line, k, pos, spans, n, lo) ==
    IF n < lo
    THEN IF p.items[k].opt THEN MatchItems(p, line, k + 1, pos, spans) ELSE None
    ELSE OrShorter(p, line, k, pos, spans, n, lo,
                   MatchItems(p, line, k + 1, pos + n,
                              Bind(spans, p.items[k].name, pos, n)))

\* The items from the k-th on, at pos: <<>> or <<[end, spans]>>.
MatchItems(p, line, k, pos, spans) ==
    IF k > Len(p.items)
    THEN IF p.eol => AtEol(line, pos)
         THEN Some([end |-> pos, spans |-> spans])
         ELSE None
    ELSE TryLens(p, line, k, pos, spans, MaxTake(p, p.items[k], line, pos),
                 MinTake(p.items[k]))

RECURSIVE SearchFrom(_, _, _)
\* The match that starts at start, or the search one character further on.
OrFurther(p, line, start, r) ==
    IF IsNone(r) THEN SearchFrom(p, line, start + 1)
    ELSE Some([start |-> start, end |-> r[1].end, spans |-> r[1].spans,
               string |-> line])

SearchFrom(p, line, start) ==
    IF start > Len(line) THEN None
    ELSE OrFurther(p, line, start,
                   IF p.bol => AtBol(line, start)
                   THEN MatchItems(p, line, 1, start, [g \in GroupIndex(p) |-> Unset])
                   ELSE None)

\* Pattern.search(line): <<>> (None) or <<match>>.
re_search(p, line) == SearchFrom(p, line, 0)

\* Match.groupdict(): each named group's text, None for a group that did
\* not take part.
groupdict(m) ==
    [g \in DOMAIN m.spans |->
        IF m.spans[g] = Unset THEN None
        ELSE Some(PySlice(m.string, m.spans[g][1], m.spans[g][2]))]

\* v or ""
OrEmpty(v) == IF IsNone(v) THEN <<>> ELSE v[1]

\* {k: (v or "") for k, v in groups.items()}
NonNull(groups) == [k \in DOMAIN groups |-> OrEmpty(groups[k])]

(***************************************************************************)
(* Templates.                                                              *)
(***************************************************************************)
MSG == <<"m", "s", "g">>

LINE_NO == <<"l", "i", "n", "e", "_", "n", "o">>

LEVEL == <<"l", "e", "v", "e", "l">>

\* The offset (from 0) of the first occurrence of t in s at or after pos,
\* or -1: str.find(t, pos).
RECURSIVE Find(_, _, _)
Find(s, t, pos) ==
    IF pos + Len(t) > Len(s) THEN -1
    ELSE IF StartsAt(s, t, pos) THEN pos
    ELSE Find(s, t, pos + 1)

IsName(s) == Len(s) > 0 /\ \A j \in 1..Len(s) : s[j] \in WordChars

Failed == [ok |-> FALSE, text |-> <<>>]

\* A piece of output followed by the rest.
Then(t, rest) == IF rest.ok THEN [ok |-> TRUE, text |-> t \o rest.text] ELSE Failed

SyntaxError == [ok |-> FALSE, segs |-> <<>>]

ThenSegs(seg, rest) ==
    IF rest.ok THEN [ok |-> TRUE, segs |-> <<seg>> \o rest.segs] ELSE SyntaxError

\* jinja.compile_template: JINJA_ENV.from_string(source).  The lexer takes
\* "{{" expr "}}" as a variable expression (here: a name) and everything
\* else, a single "{" or "}" included, as literal data.  ok = FALSE is
\* TemplateSyntaxError.
RECURSIVE compile_template(_)
VariableNamed(name, rest) ==
    IF ~IsName(name) THEN SyntaxError
    ELSE ThenSegs([var |-> TRUE, text |-> name], compile_template(rest))

VariableUpTo(source, close) ==
    IF close < 0 THEN SyntaxError
    ELSE VariableNamed(StripSpaces(PySlice(source, 2, close)),
                       PySliceFrom(source, close + 2))

compile_template(source) ==
    IF Len(source) = 0 THEN [ok |-> TRUE, segs |-> <<>>]
    ELSE IF StartsAt(source, <<"{", "{">>, 0)
    THEN VariableUpTo(source, Find(source, <<"}", "}">>, 2))
    ELSE ThenSegs([var |-> FALSE, text |-> <<source[1]>>], compile_template(Tail(source)))

\* Template.render(**values) under StrictUndefined: a name that is not a
\* key of values raises UndefinedError (ok = FALSE).
RECURSIVE render(_, _)
render(segs, values) ==
    IF Len(segs) = 0 THEN [ok |-> TRUE, text |-> <<>>]
    ELSE IF segs[1].var /\ segs[1].text \notin DOMAIN values THEN Failed
    ELSE Then(IF segs[1].var THEN values[segs[1].text] ELSE segs[1].text,
              render(Tail(segs), values))

\* str.format(**mapping): "{name}" is a field, "{{" and "}}" are braces;
\* ok = FALSE is the KeyError of a missing name, the IndexError of "{}"
\* or the ValueError of an unbalanced brace.
RECURSIVE str_format(_, _)
FieldNamed(name, rest, mapping) ==
    IF name \notin DOMAIN mapping THEN Failed
    ELSE Then(mapping[name], str_format(rest, mapping))

FieldUpTo(fmt, close, mapping) ==
    IF close < 0 THEN Failed
    ELSE FieldNamed(PySlice(fmt, 1, close), PySliceFrom(fmt, close + 1), mapping)

str_format(fmt, mapping) ==
    IF Len(fmt) = 0 THEN [ok |-> TRUE, text |-> <<>>]
    ELSE IF fmt[1] = "{" /\ ~StartsAt(fmt, <<"{", "{">>, 0)
    THEN FieldUpTo(fmt, Find(fmt, <<"}">>, 1), mapping)
    ELSE IF fmt[1] = "}" /\ ~StartsAt(fmt, <<"}", "}">>, 0) THEN Failed
    ELSE Then(<<fmt[1]>>,
              str_format(PySliceFrom(fmt, IF fmt[1] \in {"{", "}"} THEN 2 ELSE 1),
                         mapping))

(***************************************************************************)
(* types.ParsedLine                                                        *)
(***************************************************************************)
ParsedLine(f, m, o, span, override) ==
    [fields |-> f, msg |-> m, original_line |-> o, msg_span |-> span,
     line_override |-> override]

\* ParsedLine.as_mapping: the fields, then "msg" set to the message.
as_mapping(parsed) == DictUpdate(parsed.fields, [k \in {MSG} |-> parsed.msg])

(***************************************************************************)
(* config.parse_line: [raised, parsed]; raised is the re.error of          *)
(* re.compile on the input expression, which parse_line compiles on every  *)
(* call.                                                                   *)
(***************************************************************************)
\* config.py:132, 138: the whole line is the message.
WholeLine(line) ==
    [raised |-> FALSE, parsed |-> ParsedLine(EmptyDict, line, line, None, None)]

\* config.py:140-145
FromGroups(line, groups, msg_span) ==
    [raised |-> FALSE,
     parsed |-> ParsedLine(NonNull([k \in (DOMAIN groups) \ {MSG} |-> groups[k]]),
                           IF MSG \notin DOMAIN groups \/ IsNone(groups[MSG])
                           THEN line ELSE groups[MSG][1],
                           line, msg_span, None)]

\* config.py:136-143
FromMatch(line, pattern, m) ==
    IF IsNone(m) THEN WholeLine(line)
    ELSE FromGroups(line, groupdict(m[1]),
                    IF MSG \in GroupIndex(pattern) THEN m[1].spans[MSG] ELSE None)

\* config.py:135-136
FromPattern(line, pattern) ==
    IF ~pattern.ok THEN [raised |-> TRUE, parsed |-> WholeLine(line).parsed]
    ELSE FromMatch(line, pattern, re_search(pattern, line))

\* config.py:131-135
FromLine(line, input_cfg) ==
    IF IsNone(input_cfg.regex) THEN WholeLine(line)
    ELSE FromPattern(line, re_compile(input_cfg.regex[1], _parse_flags(input_cfg.flags)))

parse_line(raw_line, input_cfg) == FromLine(RStripNL(raw_line), input_cfg)

(***************************************************************************)
(* rules: BaseRegexRule.matches, SkipRule / PassRule / RewriteRule.apply   *)
(***************************************************************************)
\* A variant of matches that searches the whole line instead of the message.
matches_in_line(rule, parsed_line) ==
    re_search(rule.pattern, parsed_line.original_line)

\* BaseRegexRule.matches: the rule's pattern searched in the message.
matches(rule, parsed_line) == re_search(rule.pattern, parsed_line.msg)

\* rules.py:69-71: the rule's own named groups laid over the mapping.
ValuesOf(base, match) ==
    IF IsNone(match) THEN base
    ELSE DictUpdate(base, NonNull(groupdict(match[1])))

Rendered(r, values) == [ok |-> r.ok, text |-> r.text, values |-> values]

RenderAgainst(rule, values) == Rendered(render(rule.template, values), values)

\* RewriteRule._render_template: [ok, text, values].
_render_template(rule, parsed_line) ==
    RenderAgainst(rule, ValuesOf(as_mapping(parsed_line),
                                 re_search(rule.pattern, parsed_line.msg)))

\* A variant of apply that passes the line through when rendering fails.
Rewritten_or_passed(rule, parsed_line, rendered) ==
    IF ~rendered.ok
    THEN [raised |-> FALSE, should_print |-> TRUE, parsed |-> parsed_line,
          values |-> Some(rendered.values)]
    ELSE [raised |-> FALSE, should_print |-> TRUE,
          parsed |-> ParsedLine(parsed_line.fields,
                                IF rule.scope = "line" THEN parsed_line.msg
                                ELSE rendered.text,
                                parsed_line.original_line, parsed_line.msg_span,
                                IF rule.scope = "line" THEN Some(rendered.text)
                                ELSE None),
          values |-> Some(rendered.values)]

\* RewriteRule.apply after rendering.
Rewritten(rule, parsed_line, rendered) ==
    IF ~rendered.ok
    THEN [raised |-> TRUE, should_print |-> FALSE, parsed |-> parsed_line,
          values |-> Some(rendered.values)]
    ELSE IF rule.scope = "line"
    THEN [raised |-> FALSE, should_print |-> TRUE,
          parsed |-> ParsedLine(parsed_line.fields, parsed_line.msg,
                                parsed_line.original_line, parsed_line.msg_span,
                                Some(rendered.text)),
          values |-> Some(rendered.values)]
    ELSE [raised |-> FALSE, should_print |-> TRUE,
          parsed |-> ParsedLine(parsed_line.fields, rendered.text,
                                parsed_line.original_line, parsed_line.msg_span,
                                None),
          values |-> Some(rendered.values)]

\* Rule.apply: [raised, should_print, parsed, values]; values is the
\* mapping a rewrite rendered against (None for skip and pass).
apply(rule, parsed_line) ==
    IF rule.kind = "skip"
    THEN [raised |-> FALSE, should_print |-> FALSE, parsed |-> parsed_line, values |-> None]
    ELSE IF rule.kind = "pass"
    THEN [raised |-> FALSE, should_print |-> TRUE, parsed |-> parsed_line, values |-> None]
    ELSE Rewritten(rule, parsed_line, _render_template(rule, parsed_line))

(***************************************************************************)
(* config.Config: validation and compile_rules                             *)
(***************************************************************************)
\* What Config.model_validate accepts: the unmatched validator, the rule
\* discriminator, the required fields of each rule kind, the scope literal.
RuleValid(rc) ==
    /\ rc.type \in {"skip", "pass", "rewrite"}
    /\ ~IsNone(rc.when)
    /\ rc.type = "rewrite" =>
          /\ ~IsNone(rc.replace)
          /\ rc.scope \in {None, Some("message"), Some("line")}

_validate_unmatched(v) == v \in {"pass", "skip"}

model_validate(d) ==
    /\ _validate_unmatched(d.unmatched)
    /\ \A j \in 1..Len(d.rules) : RuleValid(d.rules[j])

\* config.py:86-94 for one rule: [exc, rule].
CompiledRule(rc, pattern, template) ==
    [exc |-> IF ~pattern.ok THEN "re.error"
             ELSE IF ~template.ok THEN "TemplateSyntaxError"
             ELSE "",
     rule |-> [kind |-> rc.type, pattern |-> pattern, template |-> template.segs,
               scope |-> IF rc.type = "rewrite" /\ ~IsNone(rc.scope) THEN rc.scope[1]
                         ELSE "message"]]

CompileRule(rc) ==
    CompiledRule(rc, re_compile(rc.when[1].regex, _parse_flags(rc.when[1].flags)),
                 IF rc.type = "rewrite" THEN compile_template(rc.replace[1])
                 ELSE [ok |-> TRUE, segs |-> <<>>])

\* Config.compile_rules: [exc, rules]; the first rule that fails to
\* compile raises.
RECURSIVE compile_rules(_)
AfterFirst(first, rcs) ==
    IF first.exc # "" THEN [exc |-> first.exc, rules |-> <<>>]
    ELSE [exc |-> compile_rules(rcs).exc,
          rules |-> <<first.rule>> \o compile_rules(rcs).rules]

compile_rules(rcs) ==
    IF Len(rcs) = 0 THEN [exc |-> "", rules |-> <<>>]
    ELSE AfterFirst(CompileRule(rcs[1]), Tail(rcs))

(***************************************************************************)
(* processor.Processor                                                     *)
(***************************************************************************)
\* processor.py:57-59
RECURSIVE ReplaceAll(_, _)
ReplaceAll(line, items) ==
    IF Len(items) = 0 THEN line
    ELSE ReplaceAll(IF Len(items[1][1]) > 0
                    THEN StrReplace(line, items[1][1], items[1][2])
                    ELSE line,
                    Tail(items))

\* Processor._apply_global_replacements
_apply_global_replacements(config, raw_line) ==
    ReplaceAll(RStripNL(raw_line), config.global_replace)
        \o (IF EndsWithNL(raw_line) THEN <<NL>> ELSE <<>>)

\* A variant of the fallback that writes original_line instead of msg.
EmitFormatted_or_original(parsed, mapping, r) ==
    IF r.ok
    THEN [text |-> r.text \o <<NL>>, path |-> "format", mapping |-> Some(mapping)]
    ELSE [text |-> parsed.original_line \o <<NL>>, path |-> "fallback",
          mapping |-> Some(mapping)]

\* processor.py:43-46: [text, path, mapping]
EmitFormatted(parsed, mapping, r) ==
    IF r.ok
    THEN [text |-> r.text \o <<NL>>, path |-> "format", mapping |-> Some(mapping)]
    ELSE [text |-> parsed.msg \o <<NL>>, path |-> "fallback", mapping |-> Some(mapping)]

\* processor.py:42-44
EmitFormat(parsed, fmt, mapping) ==
    EmitFormatted(parsed, mapping, str_format(fmt, mapping))

\* A variant of the plain branch that writes a rewritten msg on its own
\* when no span is known.
EmitPlain_msg_without_span(parsed) ==
    IF IsNone(parsed.msg_span)
    THEN [text |-> (IF parsed.msg # parsed.original_line THEN parsed.msg
                    ELSE parsed.original_line) \o <<NL>>,
          path |-> "original", mapping |-> None]
    ELSE [text |-> PySliceTo(parsed.original_line, parsed.msg_span[1])
                   \o parsed.msg
                   \o PySliceFrom(parsed.original_line, parsed.msg_span[2])
                   \o <<NL>>,
          path |-> "splice", mapping |-> None]

\* processor.py:49-53
EmitPlain(parsed) ==
    IF /\ ~IsNone(parsed.msg_span)
       /\ parsed.msg # PySlice(parsed.original_line, parsed.msg_span[1],
                               parsed.msg_span[2])
    THEN [text |-> PySliceTo(parsed.original_line, parsed.msg_span[1])
                   \o parsed.msg
                   \o PySliceFrom(parsed.original_line, parsed.msg_span[2])
                   \o <<NL>>,
          path |-> "splice", mapping |-> None]
    ELSE [text |-> parsed.original_line \o <<NL>>, path |-> "original",
          mapping |-> None]

\* A variant of _emit that consults the output format before line_override.
_emit_format_first(config, parsed) ==
    IF ~IsNone(config.output.format) /\ Len(config.output.format[1]) > 0
    THEN EmitFormat(parsed, config.output.format[1], as_mapping(parsed))
    ELSE IF ~IsNone(parsed.line_override)
    THEN [text |-> parsed.line_override[1] \o <<NL>>, path |-> "override",
          mapping |-> None]
    ELSE EmitPlain(parsed)

\* Processor._emit: [text, path, mapping]: the one text written, the branch
\* that wrote it, and the mapping the output format was rendered against.
_emit(config, parsed) ==
    IF ~IsNone(parsed.line_override)
    THEN [text |-> parsed.line_override[1] \o <<NL>>, path |-> "override",
          mapping |-> None]
    ELSE IF ~IsNone(config.output.format) /\ Len(config.output.format[1]) > 0
    THEN EmitFormat(parsed, config.output.format[1], as_mapping(parsed))
    ELSE EmitPlain(parsed)

\* A variant of the rule loop without the break: the last matching rule
\* is the one applied.
RECURSIVE RuleLoop_without_break(_, _, _)
LaterOr(rules, k, parsed, later) ==
    IF later.handled THEN later
    ELSE IF ~IsNone(matches(rules[k], parsed))
    THEN [handled |-> TRUE, applied |-> k, evaluated |-> Len(rules),
          result |-> Some(apply(rules[k], parsed))]
    ELSE later

RuleLoop_without_break(rules, k, parsed) ==
    IF k > Len(rules)
    THEN [handled |-> FALSE, applied |-> 0, evaluated |-> Len(rules), result |-> None]
    ELSE LaterOr(rules, k, parsed, RuleLoop_without_break(rules, k + 1, parsed))

\* processor.py:23-31, the rule loop from the k-th rule on:
\* [handled, applied, evaluated, result]: applied is the index of the rule
\* whose apply ran (0: none), evaluated the number of rules whose matches
\* ran, result what apply returned.
RECURSIVE RuleLoop(_, _, _)
RuleLoop(rules, k, parsed) ==
    IF k > Len(rules)
    THEN [handled |-> FALSE, applied |-> 0, evaluated |-> Len(rules), result |-> None]
    ELSE IF ~IsNone(matches(rules[k], parsed))
    THEN [handled |-> TRUE, applied |-> k, evaluated |-> k,
          result |-> Some(apply(rules[k], parsed))]
    ELSE RuleLoop(rules, k + 1, parsed)

\* processor.py:27-31: a rule matched and was applied.
Handled(config, line_number, parsed, loop, res) ==
    [line_number |-> line_number,
     exc |-> IF res.raised THEN "UndefinedError" ELSE "",
     parsed |-> parsed, handled |-> TRUE, applied |-> loop.applied,
     evaluated |-> loop.evaluated, values |-> res.values,
     new_parsed |-> IF res.raised THEN None ELSE Some(res.parsed),
     emitted |-> IF res.should_print /\ ~res.raised
                 THEN Some(_emit(config, res.parsed)) ELSE None]

\* processor.py:32-34: no rule matched.
Unhandled(config, line_number, parsed, loop) ==
    [line_number |-> line_number, exc |-> "", parsed |-> parsed, handled |-> FALSE,
     applied |-> 0, evaluated |-> loop.evaluated, values |-> None,
     new_parsed |-> None,
     emitted |-> IF config.unmatched = "pass" THEN Some(_emit(config, parsed))
                 ELSE None]

AfterRules(config, line_number, parsed, loop) ==
    IF loop.handled THEN Handled(config, line_number, parsed, loop, loop.result[1])
    ELSE Unhandled(config, line_number, parsed, loop)

\* A variant of the injection that keeps a line_no the input expression
\* captured.
InjectLineNo_unless_captured(parsed, line_number) ==
    [parsed EXCEPT !.fields =
        DictUpdate([k \in {LINE_NO} |-> ToDecimal(line_number)], parsed.fields)]

\* processor.py:21-22
InjectLineNo(parsed, line_number) ==
    [parsed EXCEPT !.fields =
        DictUpdate(parsed.fields, [k \in {LINE_NO} |-> ToDecimal(line_number)])]

\* processor.py:23-34
Evaluate(config, rules, line_number, parsed) ==
    AfterRules(config, line_number, parsed, RuleLoop(rules, 1, parsed))

\* processor.py:19-22
AfterParse(config, rules, line_number, pl) ==
    IF pl.raised
    THEN [line_number |-> line_number, exc |-> "re.error", parsed |-> pl.parsed,
          handled |-> FALSE, applied |-> 0, evaluated |-> 0, values |-> None,
          new_parsed |-> None, emitted |-> None]
    ELSE Evaluate(config, rules, line_number, InjectLineNo(pl.parsed, line_number))

\* One iteration of the loop of process_stream, for the line_number-th
\* line: the locals of the iteration and what it wrote.
Iteration(config, rules, line_number, raw_line) ==
    AfterParse(config, rules, line_number,
               parse_line(_apply_global_replacements(config, raw_line), config.input))

(***************************************************************************)
(* The program: cli.main                                                   *)
(***************************************************************************)
VARIABLES
    args,            \* the parsed command line: [input, output]
    fs,              \* the paths open() succeeds on
    data,            \* the YAML document of the rules file, decoded
    stream,          \* the lines of the input, terminators included
    cfg,             \* main's cfg: None before load_config returns
    compiled_rules,  \* Processor.compiled_rules
    src,             \* main's src: "none", "stdin" or "file"
    dst,             \* main's dst: "none", "stdout" or "file"
    open_files,      \* the files main opened and has not closed
    out,             \* the texts written to dst, one per write
    line_number,     \* the lines read so far by process_stream
    last,            \* the locals of the last loop iteration, None before
    pc,              \* where main is
    exc              \* the exception propagating out of main, "" for none

vars ==
    <<args, fs, data, stream, cfg, compiled_rules, src, dst, open_files, out,
      line_number, last, pc, exc>>

\* config.load_config
load_config(d) ==
    IF model_validate(d) THEN [exc |-> "", config |-> Some(d)]
    ELSE [exc |-> "ValueError", config |-> None]

\* cli.py:26  cfg = load_config(args.rules)
LoadConfig ==
    /\ pc = "load"
    /\ cfg' = load_config(data).config
    /\ exc' = load_config(data).exc
    /\ pc' = IF load_config(data).exc = "" THEN "compile" ELSE "exit"
    /\ UNCHANGED <<args, fs, data, stream, compiled_rules, src, dst, open_files,
                   out, line_number, last>>

\* cli.py:27  Processor(config=cfg, compiled_rules=cfg.compile_rules())
CompileRules ==
    /\ pc = "compile"
    /\ compiled_rules' = compile_rules(cfg[1].rules).rules
    /\ exc' = compile_rules(cfg[1].rules).exc
    /\ pc' = IF exc' = "" THEN "open_src" ELSE "exit"
    /\ UNCHANGED <<args, fs, data, stream, cfg, src, dst, open_files, out,
                   line_number, last>>

\* open(path): whether it succeeds.
CanOpen(path) == path \in fs

\* cli.py:29-32
OpenSrc ==
    /\ pc = "open_src"
    /\ IF args.input = "-"
       THEN src' = "stdin" /\ open_files' = open_files /\ pc' = "open_dst" /\ exc' = exc
       ELSE IF CanOpen(args.input)
       THEN src' = "file" /\ open_files' = open_files \cup {"src"}
            /\ pc' = "open_dst" /\ exc' = exc
       ELSE src' = src /\ open_files' = open_files /\ pc' = "exit" /\ exc' = "OSError"
    /\ UNCHANGED <<args, fs, data, stream, cfg, compiled_rules, dst, out,
                   line_number, last>>

\* cli.py:34-37
OpenDst ==
    /\ pc = "open_dst"
    /\ IF args.output = "-"
       THEN dst' = "stdout" /\ open_files' = open_files /\ pc' = "process" /\ exc' = exc
       ELSE IF CanOpen(args.output)
       THEN dst' = "file" /\ open_files' = open_files \cup {"dst"}
            /\ pc' = "process" /\ exc' = exc
       ELSE dst' = dst /\ open_files' = open_files /\ pc' = "exit" /\ exc' = "OSError"
    /\ UNCHANGED <<args, fs, data, stream, cfg, compiled_rules, src, out,
                   line_number, last>>

\* processor.py:17-34: one line read and handled.
ProcessLine ==
    /\ pc = "process"
    /\ line_number < Len(stream)
    /\ line_number' = line_number + 1
    /\ last' = Some(Iteration(cfg[1], compiled_rules, line_number', stream[line_number']))
    /\ out' = IF IsNone(last'[1].emitted) THEN out
              ELSE Append(out, last'[1].emitted[1].text)
    /\ exc' = last'[1].exc
    /\ pc' = IF exc' = "" THEN "process" ELSE "finally"
    /\ UNCHANGED <<args, fs, data, stream, cfg, compiled_rules, src, dst, open_files>>

\* processor.py:17, cli.py:41: the input is exhausted, main returns 0.
StreamEnd ==
    /\ pc = "process"
    /\ line_number = Len(stream)
    /\ pc' = "finally"
    /\ UNCHANGED <<args, fs, data, stream, cfg, compiled_rules, src, dst, open_files,
                   out, line_number, last, exc>>

\* The files the finally block closes.
Closed(s, d) ==
    (IF s # "stdin" THEN {"src"} ELSE {}) \cup (IF d # "stdout" THEN {"dst"} ELSE {})

\* cli.py:42-46
Finally ==
    /\ pc = "finally"
    /\ open_files' = open_files \ Closed(src, dst)
    /\ pc' = "exit"
    /\ UNCHANGED <<args, fs, data, stream, cfg, compiled_rules, src, dst, out,
                   line_number, last, exc>>

Next ==
    \/ LoadConfig
    \/ CompileRules
    \/ OpenSrc
    \/ OpenDst
    \/ ProcessLine
    \/ StreamEnd
    \/ Finally

(***************************************************************************)
(* The configurations, inputs and command lines of the model.              *)
(***************************************************************************)
SeqsUpTo(S, n) == UNION {[1..k -> S] : k \in 0..n}

When(p, f) == Some([regex |-> p, flags |-> f])

\* skip  when `y`
RSkipY ==
    [type |-> "skip", when |-> When(Regex(FALSE, <<Lit(<<"y">>)>>, FALSE), None),
     replace |-> None, scope |-> None]

\* pass  when `y`
RPassY ==
    [type |-> "pass", when |-> When(Regex(FALSE, <<Lit(<<"y">>)>>, FALSE), None),
     replace |-> None, scope |-> None]

\* rewrite  when `(?P<line_no>x)?`  replace `{{ line_no }}!`  (scope omitted)
RMsg ==
    [type |-> "rewrite",
     when |-> When(Regex(FALSE, <<Optional(Group(LINE_NO, Lit(<<"x">>)))>>, FALSE), None),
     replace |-> Some(<<"{", "{", " ", "l", "i", "n", "e", "_", "n", "o", " ", "}", "}", "!">>),
     scope |-> None]

\* rewrite  when `\w+`  replace `D{{line_no}}`  scope line
RLine ==
    [type |-> "rewrite", when |-> When(Regex(FALSE, <<WordPlus>>, FALSE), None),
     replace |-> Some(<<"D", "{", "{", "l", "i", "n", "e", "_", "n", "o", "}", "}">>),
     scope |-> Some("line")]

\* rewrite  when `L` flags `i`  replace `{{ nope }}`  scope message
RBad ==
    [type |-> "rewrite",
     when |-> When(Regex(FALSE, <<Lit(<<"L">>)>>, FALSE), Some(<<"i">>)),
     replace |-> Some(<<"{", "{", " ", "n", "o", "p", "e", " ", "}", "}">>),
     scope |-> Some("message")]

\* rewrite  when `^ERROR`  replace `[{level}] {msg}`
RError ==
    [type |-> "rewrite",
     when |-> When(Regex(TRUE, <<Lit(<<"E", "R", "R", "O", "R">>)>>, FALSE), None),
     replace |-> Some(<<"[", "{", "l", "e", "v", "e", "l", "}", "]", " ",
                        "{", "m", "s", "g", "}">>),
     scope |-> None]

RulePool == {RSkipY, RPassY, RMsg, RLine}

NoInput == [regex |-> None, flags |-> None]

\* ^(?P<level>\w+): (?P<msg>.*)$
LevelMsgRe ==
    [regex |-> Some(Regex(TRUE, <<Group(LEVEL, WordPlus), Lit(<<":", " ">>),
                                  Group(MSG, AnyStar)>>, TRUE)),
     flags |-> None]

\* (?P<msg>x)?y
OptMsgRe ==
    [regex |-> Some(Regex(FALSE, <<Optional(Group(MSG, Lit(<<"x">>))), Lit(<<"y">>)>>,
                          FALSE)),
     flags |-> None]

\* (?P<line_no>\w+)
LineNoRe ==
    [regex |-> Some(Regex(FALSE, <<Group(LINE_NO, WordPlus)>>, FALSE)), flags |-> None]

InputPool == {NoInput, LevelMsgRe, OptMsgRe, LineNoRe}

\* {line_no}:{msg}
FmtLineNo ==
    <<"{", "l", "i", "n", "e", "_", "n", "o", "}", ":", "{", "m", "s", "g", "}">>

\* {nope}{msg}
FmtNope == <<"{", "n", "o", "p", "e", "}", "{", "m", "s", "g", "}">>

FormatPool == {None, Some(FmtLineNo), Some(FmtNope)}

ErrorLine ==
    <<"E", "R", "R", "O", "R", ":", " ", "d", "i", "s", "k", " ", "f", "u", "l", "l">>

ShortLines == {<<"y", NL>>, <<"x", "y", NL>>}

LinePool == {ErrorLine \o <<NL>>} \cup ShortLines

Document(ie, f, gr, rs, u) ==
    [input |-> ie, output |-> [format |-> f], global_replace |-> gr, rules |-> rs,
     unmatched |-> u]

Std == [input |-> "-", output |-> "-"]

Files == [input |-> "in.txt", output |-> "out.txt"]

\* Every input expression, output format, unmatched policy and rule list
\* against every input of short lines, on the standard streams.
RunsOfRules ==
    {<<Document(ie, f, <<>>, rs, u), st, Std, {}>> :
        ie \in InputPool, f \in FormatPool, rs \in SeqsUpTo(RulePool, MaxRules),
        u \in {"pass", "skip"}, st \in SeqsUpTo(ShortLines, MaxLines)}

\* A rewrite whose template names an undefined variable, among lines it
\* matches and lines it does not.
RunsOfUndefined ==
    {<<Document(ie, f, <<>>, rs, u), st, Std, {}>> :
        ie \in {NoInput, LevelMsgRe}, f \in {None, Some(FmtLineNo)},
        rs \in SeqsUpTo({RBad, RMsg}, MaxRules), u \in {"pass", "skip"},
        st \in SeqsUpTo({ErrorLine \o <<NL>>, <<"y", NL>>}, MaxLines)}

\* The configuration of the field-extraction example.
ExampleDocument(u) == Document(LevelMsgRe, None, <<>>, <<RError>>, u)

RunsOfExample ==
    {<<ExampleDocument(u), st, Std, {}>> :
        u \in {"pass", "skip"}, st \in SeqsUpTo(LinePool, MaxLines)}

\* Documents load_config or compile_rules must reject, and one whose input
\* expression re.compile rejects.
BadDocuments ==
    {Document(NoInput, None, <<>>, <<>>, "maybe"),
     Document(NoInput, None, <<>>, <<[RSkipY EXCEPT !.type = "drop"]>>, "pass"),
     Document(NoInput, None, <<>>, <<[RPassY EXCEPT !.when = None]>>, "pass"),
     Document(NoInput, None, <<>>, <<[RMsg EXCEPT !.replace = None]>>, "pass"),
     Document(NoInput, None, <<>>, <<[RMsg EXCEPT !.scope = Some("word")]>>, "pass"),
     Document(NoInput, None, <<>>,
              <<RPassY, [RSkipY EXCEPT !.when = When(BadRegex, None)]>>, "pass"),
     Document(NoInput, None, <<>>,
              <<[RMsg EXCEPT !.replace = Some(<<"{", "{", "x">>)]>>, "pass"),
     Document([regex |-> Some(BadRegex), flags |-> None], None, <<>>, <<RPassY>>, "pass")}

RunsOfBadDocuments ==
    {<<d, st, a, {"in.txt", "out.txt"}>> :
        d \in BadDocuments, st \in {<<>>, <<<<"y", NL>>>>}, a \in {Std, Files}}

\* Every command line against every file system.
RunsOfMain ==
    {<<Document(NoInput, None, <<>>, rs, "pass"), st, [input |-> i, output |-> o], f>> :
        rs \in {<<>>, <<RBad>>}, st \in {<<>>, <<ErrorLine \o <<NL>>>>},
        i \in {"-", "in.txt"}, o \in {"-", "out.txt"},
        f \in SUBSET {"in.txt", "out.txt"}}

\* Global replacements, and an input whose last line has no terminator.
RunsOfReplace ==
    {<<Document(ie, None, gr, rs, "pass"), st, Std, {}>> :
        ie \in {NoInput, OptMsgRe},
        gr \in {<<<<<<"x">>, <<"y">>>>>>,
                <<<<<<>>, <<"b">>>>, <<<<"y">>, <<"x", "y">>>>>>},
        rs \in {<<>>, <<RPassY>>},
        st \in {<<<<"x", "y", NL>>>>, <<<<"y", NL>>, <<"x", "y", "y">>>>, <<<<"x">>>>}}

Runs ==
    RunsOfRules \cup RunsOfUndefined \cup RunsOfExample \cup RunsOfBadDocuments \cup RunsOfMain
        \cup RunsOfReplace

Init ==
    /\ \E r \in Runs : data = r[1] /\ stream = r[2] /\ args = r[3] /\ fs = r[4]
    /\ cfg = None
    /\ compiled_rules = <<>>
    /\ src = "none"
    /\ dst = "none"
    /\ open_files = {}
    /\ out = <<>>
    /\ line_number = 0
    /\ last = None
    /\ pc = "load"
    /\ exc = ""

Spec == Init /\ [][Next]_vars

(***************************************************************************)
(* Vocabulary of the properties.                                           *)
(***************************************************************************)
\* An iteration of the loop of process_stream has run; It is its locals.
Ran == ~IsNone(last)

It == last[1]

\* This step reads and handles a line; ItNext is its locals.
ReadsLine == line_number' = line_number + 1

ItNext == last'[1]

\* The rules whose when-expression is found in msg, by index.
Matching(rules, msg) ==
    {k \in 1..Len(rules) : ~IsNone(re_search(rules[k].pattern, msg))}

Least(S) == CHOOSE k \in S : \A j \in S : k <= j

\* The first matching rule of an iteration that has one.
FirstRule(it) == compiled_rules[Least(Matching(compiled_rules, it.parsed.msg))]

HasMatch(it) == Matching(compiled_rules, it.parsed.msg) # {}

\* The parsed line an iteration hands to _emit, when it emits.
Emits(it) ==
    /\ it.exc = ""
    /\ IF HasMatch(it) THEN FirstRule(it).kind # "skip" ELSE cfg[1].unmatched = "pass"

Emitted(it) == IF HasMatch(it) THEN it.new_parsed[1] ELSE it.parsed

NoFormat == IsNone(cfg[1].output.format)

\* The last text written.
LastWrite == out[Len(out)]

\* The k-th input line after global replacement, terminator removed.
Replaced(k) == RStripNL(_apply_global_replacements(cfg[1], stream[k]))

(***************************************************************************)
(* C1                                                                      *)
(***************************************************************************)
C1_Step ==
    LET it == ItNext
        M == Matching(compiled_rules, it.parsed.msg)
        unchanged == Append(out, _emit(cfg[1], it.parsed).text)
    IN  it.exc # "re.error" =>
           /\ M = {} =>
                 /\ it.applied = 0
                 /\ it.evaluated = Len(compiled_rules)
                 /\ out' = IF cfg[1].unmatched = "pass" THEN unchanged ELSE out
           /\ M # {} =>
                 /\ it.applied = Least(M)
                 /\ it.evaluated = Least(M)
                 /\ compiled_rules[Least(M)].kind = "skip" => out' = out
                 /\ compiled_rules[Least(M)].kind = "pass" => out' = unchanged

\* C1: for every line, the rule applied is the first rule, in declaration
\* order, whose when-expression is found in msg, and no later rule is
\* evaluated; a skip rule that comes first writes nothing, a pass rule that
\* comes first writes the line as parsed, unmodified; the unmatched policy
\* decides only when no rule matches.
C1_FirstMatchWins == [][ReadsLine => C1_Step]_vars

\* A skip rule before a pass rule, both matching: nothing is written.
C1_Witness ==
    /\ Ran
    /\ Len(compiled_rules) = 2
    /\ compiled_rules[1].kind = "skip"
    /\ compiled_rules[2].kind = "pass"
    /\ Matching(compiled_rules, It.parsed.msg) = {1, 2}
    /\ cfg[1].unmatched = "pass"
    /\ line_number = 1
    /\ out = <<>>

(***************************************************************************)
(* C2                                                                      *)
(***************************************************************************)
DiskFull == <<"d", "i", "s", "k", " ", "f", "u", "l", "l">>

\* [ERROR] disk full
BracketedError ==
    <<"[", "E", "R", "R", "O", "R", "]", " ">> \o DiskFull

\* The example's configuration has handled the line `ERROR: disk full`.
C2_Case ==
    /\ Ran
    /\ data = ExampleDocument("pass")
    /\ stream[It.line_number] = ErrorLine \o <<NL>>

C2_Parsed ==
    /\ LEVEL \in DOMAIN It.parsed.fields
    /\ It.parsed.fields[LEVEL] = <<"E", "R", "R", "O", "R">>
    /\ It.parsed.msg = DiskFull

\* C2 as stated: the rewrite rule matches and `[ERROR] disk full` is written.
C2_Original ==
    C2_Case =>
       /\ C2_Parsed
       /\ It.applied = 1
       /\ Len(out) > 0
       /\ LastWrite = BracketedError \o <<NL>>

\* C2, amended: the line is parsed with level=ERROR and msg=`disk full`;
\* `^ERROR` is searched in msg, where it is not found, so the rewrite rule
\* is not applied and, unmatched being pass, the line is written as it
\* came: `ERROR: disk full`.
C2_ExampleLineIsNotMatched ==
    C2_Case =>
       /\ C2_Parsed
       /\ It.parsed.msg_span = <<7, 16>>
       /\ IsNone(re_search(compiled_rules[1].pattern, It.parsed.msg))
       /\ It.applied = 0
       /\ Len(out) > 0
       /\ LastWrite = ErrorLine \o <<NL>>

C2_Witness == C2_Case /\ line_number = 1 /\ Len(out) = 1 /\ pc = "exit"

(***************************************************************************)
(* C3                                                                      *)
(***************************************************************************)
\* The names a compiled template refers to.
Refs(template) ==
    {template[j].text : j \in {k \in 1..Len(template) : template[k].var}}

\* The names of the combined mapping: the input fields with line_no, msg,
\* and the rule's own named groups.
Combined(parsed, rule) ==
    (DOMAIN parsed.fields) \cup {MSG} \cup GroupIndex(rule.pattern)

\* The first matching rule is a rewrite whose template refers to a name
\* the combined mapping lacks.
C3_Case(it) ==
    /\ it.exc # "re.error"
    /\ HasMatch(it)
    /\ FirstRule(it).kind = "rewrite"
    /\ Refs(FirstRule(it).template) \ Combined(it.parsed, FirstRule(it)) # {}

C3_Step ==
    /\ (ReadsLine /\ C3_Case(ItNext)) =>
          /\ out' = out
          /\ exc' = "UndefinedError"
          /\ pc' = "finally"
    /\ exc # "" => (out' = out /\ line_number' = line_number)

\* C3: when the rewrite rule applied to a line refers, in its template, to
\* a name absent from the combined mapping, process_stream raises at that
\* line: nothing is written for it, what was written before stays as it
\* is, and no later line is read or written.
C3_RewriteFailureIsFatal == [][C3_Step]_vars

\* The first of two lines failed: nothing written, the second never read.
C3_Witness ==
    /\ Ran
    /\ C3_Case(It)
    /\ exc = "UndefinedError"
    /\ pc = "exit"
    /\ line_number = 1
    /\ Len(stream) = 2
    /\ out = <<>>

(***************************************************************************)
(* C4                                                                      *)
(***************************************************************************)
\* The line is emitted without line_override and the output format does
\* not render against its mapping.
C4_Case(it) ==
    /\ Emits(it)
    /\ IsNone(Emitted(it).line_override)
    /\ ~NoFormat
    /\ ~str_format(cfg[1].output.format[1],
                   [k \in (DOMAIN Emitted(it).fields) \cup {MSG} |->
                       IF k = MSG THEN Emitted(it).msg ELSE Emitted(it).fields[k]]).ok

C4_Step ==
    C4_Case(ItNext) =>
       /\ out' = Append(out, Emitted(ItNext).msg \o <<NL>>)
       /\ exc' = ""
       /\ pc' = "process"

\* C4: when rendering the output format fails for an emitted line without
\* line_override, exactly one text is written for the line, its current msg
\* and a terminator, no error leaves process_stream, and the loop goes on.
C4_FormatFailureFallsBack == [][ReadsLine => C4_Step]_vars

\* Two lines fell back in turn, the second after a rewrite of its msg.
C4_Witness ==
    /\ Ran
    /\ C4_Case(It)
    /\ line_number = 2
    /\ Len(out) = 2
    /\ It.handled
    /\ It.new_parsed[1].msg # It.parsed.msg
    /\ LastWrite = It.new_parsed[1].msg \o <<NL>>

(***************************************************************************)
(* C5                                                                      *)
(***************************************************************************)
\* A document with a configuration error of the taxonomy.
BadRule(rc) ==
    \/ rc.type \notin {"skip", "pass", "rewrite"}
    \/ IsNone(rc.when)
    \/ rc.type = "rewrite" /\ IsNone(rc.replace)
    \/ rc.type = "rewrite" /\ rc.scope \notin {None, Some("message"), Some("line")}
    \/ ~IsNone(rc.when) /\ ~rc.when[1].regex.ok

ConfigurationError(d) ==
    \/ d.unmatched \notin {"pass", "skip"}
    \/ \E j \in 1..Len(d.rules) : BadRule(d.rules[j])
    \/ ~IsNone(d.input.regex) /\ ~d.input.regex[1].ok

\* C5: every configuration error is raised by load_config or compile_rules:
\* main ends with the error, with no stream opened, no line read and
\* nothing written, whatever the input.
C5_ConfigurationErrorsBeforeStreams ==
    ConfigurationError(data) =>
       /\ src = "none"
       /\ dst = "none"
       /\ line_number = 0
       /\ out = <<>>
       /\ pc \in {"load", "compile", "exit"}
       /\ pc = "exit" => exc \in {"ValueError", "re.error"}

(***************************************************************************)
(* C6                                                                      *)
(***************************************************************************)
\* C6: when main is left, by return or by an exception, no file it opened
\* is still open.
C6_FilesClosedOnExit == pc = "exit" => open_files = {}

(***************************************************************************)
(* C7                                                                      *)
(***************************************************************************)
\* line_no as the output format sees it, when the format is rendered.
C7_FormatSees(k) ==
    (~IsNone(It.emitted) /\ ~IsNone(It.emitted[1].mapping)) =>
       /\ LINE_NO \in DOMAIN It.emitted[1].mapping[1]
       /\ It.emitted[1].mapping[1][LINE_NO] = k

\* C7 as stated: both templates see the decimal string of the line's
\* position, whatever the expressions define.
C7_Original ==
    Ran =>
       /\ It.line_number = line_number
       /\ C7_FormatSees(ToDecimal(line_number))
       /\ ~IsNone(It.values) => It.values[1][LINE_NO] = ToDecimal(line_number)

\* C7, amended: for the k-th line read, the output format sees line_no as
\* the decimal string of k, for every input expression, also one that
\* defines a group line_no; a rewrite rule's template sees the same unless
\* the rule's own when-expression defines a group line_no, and then it sees
\* that group's text (empty when the group took no part in the match).
C7_LineNoIsPosition ==
    Ran =>
       /\ It.line_number = line_number
       /\ C7_FormatSees(ToDecimal(line_number))
       /\ ~IsNone(It.values) =>
             It.values[1][LINE_NO] =
                IF LINE_NO \in GroupIndex(FirstRule(It).pattern)
                THEN OrEmpty(groupdict(re_search(FirstRule(It).pattern,
                                                 It.parsed.msg)[1])[LINE_NO])
                ELSE ToDecimal(line_number)

\* The second line, skipped or not the first, under an input expression
\* that captures line_no itself: the template and the format see "2".
C7_Witness ==
    /\ Ran
    /\ line_number = 2
    /\ cfg[1].input = LineNoRe
    /\ ~IsNone(It.values)
    /\ It.values[1][LINE_NO] = <<"2">>
    /\ LastWrite = <<"D", "2", NL>>

(***************************************************************************)
(* C8                                                                      *)
(***************************************************************************)
\* The first matching rule is a rewrite of scope line, and it rendered.
C8_Case(it) ==
    /\ it.exc = ""
    /\ HasMatch(it)
    /\ FirstRule(it).kind = "rewrite"
    /\ FirstRule(it).scope = "line"

C8_Step ==
    C8_Case(ItNext) =>
       /\ out' = Append(out, render(FirstRule(ItNext).template, ItNext.values[1]).text
                             \o <<NL>>)
       /\ ItNext.new_parsed[1].msg = ItNext.parsed.msg
       /\ ItNext.new_parsed[1].fields = ItNext.parsed.fields
       /\ ItNext.new_parsed[1].original_line = ItNext.parsed.original_line
       /\ ItNext.new_parsed[1].msg_span = ItNext.parsed.msg_span

\* C8: when the first matching rule is a rewrite of scope line, what is
\* written for the line is the rendered template and one terminator,
\* whatever the line, the span and the output format; the parsed line it
\* produces keeps msg, fields, original_line and msg_span.
C8_LineScopeWritesTheOverride == [][ReadsLine => C8_Step]_vars

\* A line-scope rewrite under an output format and a known span.
C8_Witness ==
    /\ Ran
    /\ C8_Case(It)
    /\ ~NoFormat
    /\ ~IsNone(It.parsed.msg_span)
    /\ It.parsed.msg # It.parsed.original_line
    /\ LastWrite = <<"D", "1", NL>>

(***************************************************************************)
(* C9                                                                      *)
(***************************************************************************)
\* C9: with no output format, a line emitted without a rewrite, by a pass
\* rule or by unmatched = pass, is written as its original_line and one
\* terminator, for every input expression, matched or not, its msg group
\* taking part in the match or not.
C9_PassedLineIsOriginalLine ==
    (/\ Ran
     /\ It.exc = ""
     /\ NoFormat
     /\ Emits(It)
     /\ HasMatch(It) => FirstRule(It).kind = "pass")
       => /\ Len(out) > 0
          /\ LastWrite = Replaced(line_number) \o <<NL>>

(***************************************************************************)
(* C10                                                                     *)
(***************************************************************************)
\* parse_line finds no span for msg in the k-th line: no input expression,
\* no match, or no group msg.
NoSpan(k) ==
    \/ IsNone(cfg[1].input.regex)
    \/ IsNone(re_search(re_compile(cfg[1].input.regex[1],
                                   _parse_flags(cfg[1].input.flags)),
                        Replaced(k)))
    \/ MSG \notin GroupIndex(cfg[1].input.regex[1])

\* The first matching rule is a rewrite of scope message, and it rendered.
C10_Case(it) ==
    /\ it.exc = ""
    /\ NoFormat
    /\ NoSpan(it.line_number)
    /\ HasMatch(it)
    /\ FirstRule(it).kind = "rewrite"
    /\ FirstRule(it).scope = "message"

C10_Step == C10_Case(ItNext) => out' = Append(out, Replaced(line_number') \o <<NL>>)

\* C10: with no output format and no span for msg, a matching rewrite of
\* scope message does not show in the output: the line is written as its
\* original_line and one terminator.
C10_MessageRewriteWithoutSpanIsLost == [][ReadsLine => C10_Step]_vars

\* The rewrite changed msg and the line went out as it came.
C10_Witness ==
    /\ Ran
    /\ C10_Case(It)
    /\ ~IsNone(cfg[1].input.regex)
    /\ It.new_parsed[1].msg # It.parsed.msg
    /\ LastWrite = It.parsed.original_line \o <<NL>>
    /\ LastWrite # It.new_parsed[1].msg \o <<NL>>

====
